---- MODULE Spec2Model ----
(***************************************************************************)
(* Model of the honeypot decision core: the engagement policy              *)
(* (src/agents/policy.py), the persona store (src/agents/persona.py) and   *)
(* the per-turn orchestration (src/agents/honeypot_agent.py).              *)
(*                                                                         *)
(* Floats (confidence, scam intensity, probabilities) are integers in      *)
(* hundredths: 0.85 is 85.  Durations are whole seconds.                   *)
(***************************************************************************)
EXTENDS Integers, Sequences, FiniteSets, TLC

VARIABLES
    personas,     \* PersonaManager.personas: dict conversation id -> Persona
    calls,        \* per caller: the operation it runs, its position, locals, return value
    modes_used,   \* history: per conversation id, the modes of its turns since creation
    stopped,      \* history: per conversation id, the stop verdicts returned so far
    polIn,        \* policy check: the EngagementState handed to the policy
    polOut,       \* policy check: the last policy call and what it returned
    askCall,      \* extraction check: a persona, a draw, what should_ask... returned
    policy,       \* an EngagementPolicy built from given settings, and its last call
    cleared       \* history: per conversation id, its last clear and the turns since

vars == <<personas, calls, modes_used, stopped, polIn, polOut, askCall, policy, cleared>>

----------------------------------------------------------------------------
(* Settings read by EngagementPolicy.__init__ (hundredths for thresholds). *)

cautious_threshold == 60

aggressive_threshold == 85

max_turns_cautious == 10

max_turns_aggressive == 25

max_duration_seconds == 600

stale_turn_threshold == 5

----------------------------------------------------------------------------
(* Bounds of the model.                                                    *)

\* cap of engagement_turn in the store specification
MaxTurn == 3

\* turns past the larger turn limit that the termination specification runs
TurnsPastLimit == 2

----------------------------------------------------------------------------
(* policy.py                                                               *)

EngagementMode == {"none", "cautious", "aggressive"}

\* order of the modes: none < cautious < aggressive
ModeRank(m) == CASE m = "none" -> 0 [] m = "cautious" -> 1 [] m = "aggressive" -> 2

\* str | None of get_exit_reason: a message and the number formatted into it
Reason(msg, n) == [msg |-> msg, n |-> n]

NoneReason == Reason("None", 0)

get_engagement_mode_strict(confidence) ==
    IF confidence > aggressive_threshold THEN "aggressive"
    ELSE IF confidence > cautious_threshold THEN "cautious"
    ELSE "none"

get_engagement_mode(confidence) ==
    IF confidence >= aggressive_threshold THEN "aggressive"
    ELSE IF confidence >= cautious_threshold THEN "cautious"
    ELSE "none"

max_turns_swapped(state) ==
    IF state.mode = "aggressive" THEN max_turns_cautious ELSE max_turns_aggressive

max_turns(state) ==
    IF state.mode = "aggressive" THEN max_turns_aggressive ELSE max_turns_cautious

should_continue_at_limit_only(state) ==
    IF state.turn_count = max_turns(state) THEN FALSE
    ELSE IF state.duration_seconds >= max_duration_seconds THEN FALSE
    ELSE IF state.intelligence_complete THEN FALSE
    ELSE IF state.scammer_suspicious THEN FALSE
    ELSE IF state.turns_since_new_info >= stale_turn_threshold THEN FALSE
    ELSE TRUE

should_continue_no_stale(state) ==
    IF state.turn_count >= max_turns(state) THEN FALSE
    ELSE IF state.duration_seconds >= max_duration_seconds THEN FALSE
    ELSE IF state.intelligence_complete THEN FALSE
    ELSE IF state.scammer_suspicious THEN FALSE
    ELSE TRUE

should_continue(state) ==
    IF state.turn_count >= max_turns(state) THEN FALSE
    ELSE IF state.duration_seconds >= max_duration_seconds THEN FALSE
    ELSE IF state.intelligence_complete THEN FALSE
    ELSE IF state.scammer_suspicious THEN FALSE
    ELSE IF state.turns_since_new_info >= stale_turn_threshold THEN FALSE
    ELSE TRUE

get_exit_reason_suspicion_first(state) ==
    IF state.scammer_suspicious THEN Reason("Scammer became suspicious", 0)
    ELSE IF state.turn_count >= max_turns(state)
        THEN Reason("Max turns reached", max_turns(state))
    ELSE IF state.duration_seconds >= max_duration_seconds
        THEN Reason("Max duration exceeded", max_duration_seconds)
    ELSE IF state.intelligence_complete THEN Reason("Intelligence extraction complete", 0)
    ELSE IF state.turns_since_new_info >= stale_turn_threshold
        THEN Reason("No new information in turns", stale_turn_threshold)
    ELSE NoneReason

get_exit_reason_gt_duration(state) ==
    IF state.turn_count >= max_turns(state)
        THEN Reason("Max turns reached", max_turns(state))
    ELSE IF state.duration_seconds > max_duration_seconds
        THEN Reason("Max duration exceeded", max_duration_seconds)
    ELSE IF state.intelligence_complete THEN Reason("Intelligence extraction complete", 0)
    ELSE IF state.scammer_suspicious THEN Reason("Scammer became suspicious", 0)
    ELSE IF state.turns_since_new_info >= stale_turn_threshold
        THEN Reason("No new information in turns", stale_turn_threshold)
    ELSE NoneReason

get_exit_reason(state) ==
    IF state.turn_count >= max_turns(state)
        THEN Reason("Max turns reached", max_turns(state))
    ELSE IF state.duration_seconds >= max_duration_seconds
        THEN Reason("Max duration exceeded", max_duration_seconds)
    ELSE IF state.intelligence_complete THEN Reason("Intelligence extraction complete", 0)
    ELSE IF state.scammer_suspicious THEN Reason("Scammer became suspicious", 0)
    ELSE IF state.turns_since_new_info >= stale_turn_threshold
        THEN Reason("No new information in turns", stale_turn_threshold)
    ELSE NoneReason

\* every turn counted as a turn without new information
EngageVerdictCountsStale(mode, turn_count, duration) ==
    LET state == [mode |-> mode,
                  turn_count |-> turn_count,
                  duration_seconds |-> duration,
                  intelligence_complete |-> FALSE,
                  scammer_suspicious |-> FALSE,
                  turns_since_new_info |-> turn_count]
        sc == should_continue(state)
    IN  [state |-> state,
         should_continue |-> sc,
         exit_reason |-> IF ~sc THEN get_exit_reason(state) ELSE NoneReason]

\* engage, lines 153-163: the EngagementState of a turn and the verdict on it
EngageVerdict(mode, turn_count, duration) ==
    LET state == [mode |-> mode,
                  turn_count |-> turn_count,
                  duration_seconds |-> duration,
                  intelligence_complete |-> FALSE,
                  scammer_suspicious |-> FALSE,
                  turns_since_new_info |-> 0]
        sc == should_continue(state)
    IN  [state |-> state,
         should_continue |-> sc,
         exit_reason |-> IF ~sc THEN get_exit_reason(state) ELSE NoneReason]

----------------------------------------------------------------------------
(* Inputs of the policy check.                                             *)

\* confidence / scam intensity values, in hundredths; -10 and 110 are out of [0,1]
Confidences == {-10, 50, 59, 60, 80, 84, 85, 110}

TurnCounts == {0, max_turns_cautious - 1, max_turns_cautious, max_turns_cautious + 1,
               max_turns_aggressive - 1, max_turns_aggressive, max_turns_aggressive + 1}

Durations == {0, max_duration_seconds - 1, max_duration_seconds}

StaleCounts == {0, stale_turn_threshold - 1, stale_turn_threshold}

EngagementStates ==
    [mode : EngagementMode,
     turn_count : TurnCounts,
     duration_seconds : Durations,
     intelligence_complete : BOOLEAN,
     scammer_suspicious : BOOLEAN,
     turns_since_new_info : StaleCounts]

\* confidences of the mode check: the range ends and both sides of each threshold
ModeConfidences == Confidences \cup {0, 61, 86, 100}

\* str(bool | None) of the policy check: a return value not yet seen is "unknown"
NoPolicyCall ==
    [conf |-> 0, mode |-> "unknown", prev_conf |-> 0, prev_mode |-> "unknown",
     cont |-> "unknown", reason |-> Reason("unknown", 0),
     verdict_cont |-> "unknown", verdict_reason |-> Reason("unknown", 0)]

BoolStr(b) == IF b THEN "true" ELSE "false"

----------------------------------------------------------------------------
(* Text.  A str is a sequence of tokens; str | None carries a none flag.   *)
(* " " is whitespace, "." a period, every other token a run of text.       *)

PyStr(s) == [none |-> FALSE, s |-> s]

PyNone == [none |-> TRUE, s |-> << >>]

\* truthiness of a str | None: None and "" are falsy
Truthy(x) == ~x.none /\ x.s # << >>

\* len(text.strip()) > 0
StripNonEmpty(s) == \E i \in 1..Len(s) : s[i] # " "

\* text.startswith(prefix)
StartsWith(s, prefix) ==
    Len(prefix) <= Len(s) /\ SubSeq(s, 1, Len(prefix)) = prefix

\* no case folding
LowerTokenSame(t) == t

\* text.lower(), token by token
LowerToken(t) == IF t = "Account" THEN "account" ELSE t

Lower(s) == [i \in 1..Len(s) |-> LowerToken(s[i])]

\* any(q in text for q in ["account", "upi", "link", "number"])
MentionsIntel(s) == \E i \in 1..Len(s) : s[i] \in {"account", "upi", "link", "number"}

\* text.rstrip(".")
RECURSIVE RStripPeriod(_)
RStripPeriod(s) ==
    IF s # << >> /\ s[Len(s)] = "." THEN RStripPeriod(SubSeq(s, 1, Len(s) - 1)) ELSE s

\* prompts.py EXTRACTION_QUESTIONS
EXTRACTION_QUESTIONS ==
    <<"Which account number should I use for the transfer?",
      "What's your UPI ID? I'll send the amount right now.",
      "Can you send me the link again? It's not working on my phone.",
      "What number should I call if I have problems?",
      "Should I share my account details for verification?",
      "Where exactly do I need to click? Can you share the website?">>

\* _get_fallback_response: the four canned replies
fallback_responses ==
    <<"I'm sorry, I'm a bit confused. Can you explain that again?",
      "My phone is acting up. What do I need to do exactly?",
      "I didn't understand. Can you tell me step by step?",
      "Okay, but what should I do first? I'm worried.">>

\* random.choice(fallback_responses), k the index drawn
get_fallback_response(k) == <<fallback_responses[k]>>

----------------------------------------------------------------------------
(* persona.py: Persona                                                     *)

EmotionalState == {"calm", "anxious", "panicked", "relieved", "suspicious"}

\* Persona(): the dataclass defaults
NewPersona ==
    [traits |-> <<"trusting", "worried", "tech_naive">>,
     emotional_state |-> "calm",
     engagement_turn |-> 0,
     extracted_info_count |-> 0,
     claimed_issues |-> << >>,
     mentioned_details |-> << >>]

update_emotional_state_ge(persona, scam_intensity) ==
    [persona EXCEPT !.emotional_state =
        IF scam_intensity >= 80 THEN "panicked"
        ELSE IF scam_intensity >= 50 THEN "anxious"
        ELSE "calm"]

update_emotional_state(persona, scam_intensity) ==
    [persona EXCEPT !.emotional_state =
        IF scam_intensity > 80 THEN "panicked"
        ELSE IF scam_intensity > 50 THEN "anxious"
        ELSE "calm"]

get_emotional_modifier(persona) ==
    CASE persona.emotional_state = "calm" -> << >>
      [] persona.emotional_state = "anxious" -> <<"I'm getting worried... ">>
      [] persona.emotional_state = "panicked" -> <<"Oh god, please help! ">>
      [] persona.emotional_state = "relieved" -> <<"Thank goodness... ">>
      [] persona.emotional_state = "suspicious" -> <<"Hmm, ">>

Min(a, b) == IF a <= b THEN a ELSE b

\* base_probability + turn_bonus, the penalty left out
probability_no_penalty(persona) == 40 + Min(30, persona.engagement_turn * 10)

\* base_probability + turn_bonus - extraction_penalty, exact, in hundredths
probability(persona) ==
    40 + Min(30, persona.engagement_turn * 10) - persona.extracted_info_count * 15

\* The float sum is the exact value up to rounding; the rounding decides the
\* comparison only where the exact value is 0: 0.4 + 0.2 - 4 * 0.15 is 2^-53.
rounds_above_zero(persona) ==
    persona.engagement_turn = 2 /\ persona.extracted_info_count = 4

\* random.random() draws, in hundredths; 0 is the draw 0.0
RandomDraws == {0, 39, 40, 69, 70, 99}

\* random.random() < probability, r the draw
should_ask_extraction_question(persona, r) ==
    \/ r < probability(persona)
    \/ r = 0 /\ probability(persona) = 0 /\ rounds_above_zero(persona)

record_extraction(persona) ==
    [persona EXCEPT !.extracted_info_count = @ + 1]

increment_turn_by_two(persona) ==
    [persona EXCEPT !.engagement_turn = @ + 2]

increment_turn(persona) ==
    [persona EXCEPT !.engagement_turn = @ + 1]

----------------------------------------------------------------------------
(* persona.py: PersonaManager.  The store is a dict: a function whose      *)
(* domain is the set of conversation ids that have a persona.              *)

ConvIds == {"a", "b"}

\* every key bound to the one object v
DictSetAll(d, k, v) == [i \in DOMAIN d \cup {k} |-> v]

DictSet(d, k, v) == [i \in DOMAIN d \cup {k} |-> IF i = k THEN v ELSE d[i]]

\* every key removed
DictPopAll(d, k) == [i \in {} |-> d[i]]

DictPop(d, k) == [i \in DOMAIN d \ {k} |-> d[i]]

\* a new persona whether or not the id is stored
get_or_create_persona_reset(store, conversation_id) ==
    DictSet(store, conversation_id, NewPersona)

\* the store after get_or_create_persona(conversation_id)
get_or_create_persona(store, conversation_id) ==
    IF conversation_id \notin DOMAIN store
        THEN DictSet(store, conversation_id, NewPersona)
        ELSE store

\* the store after update_persona(conversation_id, scam_intensity, extracted_something)
update_persona(store, conversation_id, scam_intensity, extracted_something) ==
    LET s1 == get_or_create_persona(store, conversation_id)
        p1 == increment_turn(s1[conversation_id])
        p2 == update_emotional_state(p1, scam_intensity)
        p3 == IF extracted_something THEN record_extraction(p2) ELSE p2
    IN  DictSet(s1, conversation_id, p3)

\* the dict get_persona_context returns, r the random draw
persona_context(persona, r) ==
    [emotional_state |-> persona.emotional_state,
     engagement_turn |-> persona.engagement_turn,
     emotional_modifier |-> get_emotional_modifier(persona),
     should_extract |-> should_ask_extraction_question(persona, r)]

\* nothing removed
clear_persona_keep(store, conversation_id) == store

\* the store after clear_persona(conversation_id)
clear_persona(store, conversation_id) == DictPop(store, conversation_id)

----------------------------------------------------------------------------
(* honeypot_agent.py: HoneypotAgent                                        *)

\* the callers of the agent and of the store; one caller runs its calls in sequence
Callers == {"c1"}

\* conversation_id = None
NoId == "None"

NoRet == [kind |-> "none"]

IdleCall ==
    [op |-> "none", pc |-> "idle", conv_id |-> NoId, confidence |-> 0,
     engagement_mode |-> "none", entry_turn |-> 0, model_idx |-> 1, tried |-> << >>,
     response_text |-> PyNone, asked |-> FALSE, ret |-> NoRet]

\* a caller is between calls
AtRest(c) == calls[c].pc \in {"idle", "done"}

TurnOf(store, id) == IF id \in DOMAIN store THEN store[id].engagement_turn ELSE 0

\* what one generate_content call can do: raise, or return response.text
Raises == [raises |-> TRUE, text |-> PyNone]

Returns(text) == [raises |-> FALSE, text |-> text]

\* text that passes the check of line 270
ValidText(text) == Truthy(text) /\ StripNonEmpty(text.s)

OutcomeKind(o) ==
    IF o.raises THEN "raise"
    ELSE IF ~Truthy(o.text) THEN "empty"
    ELSE IF ~StripNonEmpty(o.text.s) THEN "blank"
    ELSE "text"

FailingOutcomes == {Raises, Returns(PyNone), Returns(PyStr(<< >>))}

ModelOutcomes ==
    FailingOutcomes \cup
    {Returns(PyStr(<<" ">>)),
     Returns(PyStr(<<"ok", ".">>)),
     Returns(PyStr(<<"Account", ".">>)),
     Returns(PyStr(<<"I'm getting worried... ", "ok">>))}

\* engage, lines 114-141: conversation id, mode, persona update
EngageStart(c, conversation_id, fresh, confidence) ==
    LET conv_id == IF conversation_id = NoId THEN fresh ELSE conversation_id
        engagement_mode == get_engagement_mode(confidence)
    IN  /\ AtRest(c)
        /\ conversation_id = NoId => fresh \notin DOMAIN personas
        /\ personas' = update_persona(personas, conv_id, confidence, FALSE)
        /\ calls' = [calls EXCEPT ![c] =
                [IdleCall EXCEPT !.op = "engage", !.pc = "generate",
                                 !.conv_id = conv_id, !.confidence = confidence,
                                 !.engagement_mode = engagement_mode,
                                 !.entry_turn = TurnOf(personas, conv_id)]]
        /\ modes_used' = [modes_used EXCEPT ![conv_id] = @ \cup {engagement_mode}]
        /\ UNCHANGED <<stopped, polIn, polOut, askCall, policy>>

\* _generate_response, lines 236-290: one pass of the loop over models_to_try
TryModelResult(call, outcome) ==
    LET broke == ~outcome.raises /\ ValidText(outcome.text)
    IN  [call EXCEPT
            !.response_text = IF outcome.raises THEN @ ELSE outcome.text,
            !.tried = Append(@, OutcomeKind(outcome)),
            !.model_idx = IF broke THEN @ ELSE @ + 1,
            !.pc = IF broke \/ call.model_idx = 2 THEN "postprocess" ELSE "generate"]

TryModel(c, outcome) ==
    /\ calls[c].op = "engage" /\ calls[c].pc = "generate"
    /\ calls' = [calls EXCEPT ![c] = TryModelResult(calls[c], outcome)]
    /\ UNCHANGED <<personas, modes_used, stopped, polIn, polOut, askCall, policy, cleared>>

\* _generate_response, lines 292-295: no text, so a canned reply; k is the draw
\* of random.choice
UseFallback(c, k) ==
    LET call == calls[c]
    IN  /\ call.op = "engage" /\ call.pc = "postprocess"
        /\ ~Truthy(call.response_text)
        /\ calls' = [calls EXCEPT ![c] =
                [call EXCEPT !.pc = "finish",
                             !.response_text = PyStr(get_fallback_response(k))]]
        /\ UNCHANGED <<personas, modes_used, stopped, polIn, polOut, askCall, policy, cleared>>

PostProcessResultCountsTurn(persona, response_text, r, q) ==
    LET modifier == get_emotional_modifier(persona)
        t1 == IF persona.engagement_turn > 0
                 /\ modifier # << >> /\ ~StartsWith(response_text, modifier)
              THEN modifier \o response_text
              ELSE response_text
        ask == should_ask_extraction_question(persona, r)
               /\ ~MentionsIntel(Lower(t1))
    IN  IF ask
        THEN [response |-> RStripPeriod(t1) \o <<" ", EXTRACTION_QUESTIONS[q]>>,
              persona |-> increment_turn(record_extraction(persona)),
              asked |-> TRUE]
        ELSE [response |-> t1, persona |-> persona, asked |-> FALSE]

\* the modifier prepended without looking at the start of the text
PostProcessResultPrependsAlways(persona, response_text, r, q) ==
    LET modifier == get_emotional_modifier(persona)
        t1 == IF persona.engagement_turn > 0 /\ modifier # << >>
              THEN modifier \o response_text
              ELSE response_text
        ask == should_ask_extraction_question(persona, r)
               /\ ~MentionsIntel(Lower(t1))
    IN  IF ask
        THEN [response |-> RStripPeriod(t1) \o <<" ", EXTRACTION_QUESTIONS[q]>>,
              persona |-> record_extraction(persona),
              asked |-> TRUE]
        ELSE [response |-> t1, persona |-> persona, asked |-> FALSE]

\* _generate_response, lines 297-311: emotional modifier and extraction question;
\* r and q are the draws of random.random and random.choice
PostProcessResult(persona, response_text, r, q) ==
    LET modifier == get_emotional_modifier(persona)
        t1 == IF persona.engagement_turn > 0
                 /\ modifier # << >> /\ ~StartsWith(response_text, modifier)
              THEN modifier \o response_text
              ELSE response_text
        ask == should_ask_extraction_question(persona, r)
               /\ ~MentionsIntel(Lower(t1))
    IN  IF ask
        THEN [response |-> RStripPeriod(t1) \o <<" ", EXTRACTION_QUESTIONS[q]>>,
              persona |-> record_extraction(persona),
              asked |-> TRUE]
        ELSE [response |-> t1, persona |-> persona, asked |-> FALSE]

PostProcess(c, r, q) ==
    LET call == calls[c]
        res == PostProcessResult(personas[call.conv_id], call.response_text.s, r, q)
    IN  /\ call.op = "engage" /\ call.pc = "postprocess"
        /\ Truthy(call.response_text)
        /\ personas' = [personas EXCEPT ![call.conv_id] = res.persona]
        /\ calls' = [calls EXCEPT ![c] =
                [call EXCEPT !.pc = "finish",
                             !.response_text = PyStr(res.response),
                             !.asked = res.asked]]
        /\ UNCHANGED <<modes_used, stopped, polIn, polOut, askCall, policy, cleared>>

\* engage, lines 150-177: duration, verdict of the policy, the EngagementResult
EngagementResult(call, persona, duration) ==
    LET v == EngageVerdict(call.engagement_mode, persona.engagement_turn, duration)
    IN  [kind |-> "EngagementResult",
         response |-> call.response_text.s,
         duration_seconds |-> duration,
         notes |-> [mode |-> call.engagement_mode, confidence |-> call.confidence,
                    turn |-> persona.engagement_turn,
                    persona |-> persona.emotional_state],
         conversation_id |-> call.conv_id,
         turn_number |-> persona.engagement_turn,
         engagement_mode |-> call.engagement_mode,
         should_continue |-> v.should_continue,
         exit_reason |-> v.exit_reason]

Max(a, b) == IF a >= b THEN a ELSE b

NeverStopped == [any |-> FALSE, limit |-> 0]

\* the stop verdicts of a conversation, with one more result
NoteVerdict(h, result) ==
    IF result.should_continue THEN h
    ELSE [any |-> TRUE,
          limit |-> IF result.exit_reason.msg = "Max turns reached"
                    THEN Max(h.limit, result.exit_reason.n) ELSE h.limit]

Finish(c, duration) ==
    LET call == calls[c]
        result == EngagementResult(call, personas[call.conv_id], duration)
    IN  /\ call.op = "engage" /\ call.pc = "finish"
        /\ calls' = [calls EXCEPT ![c] = [call EXCEPT !.pc = "done", !.ret = result]]
        /\ stopped' = [stopped EXCEPT ![call.conv_id] = NoteVerdict(@, result)]
        /\ UNCHANGED <<personas, modes_used, polIn, polOut, askCall, policy, cleared>>

\* a store operation run by caller c, returning ret
StoreCall(c, op, id, confidence, ret) ==
    calls' = [calls EXCEPT ![c] =
        [IdleCall EXCEPT !.op = op, !.pc = "done", !.conv_id = id,
                         !.confidence = confidence,
                         !.entry_turn = TurnOf(personas, id), !.ret = ret]]

PersonaRet(persona) == [kind |-> "Persona", persona |-> persona]

ForgetHistory(id) ==
    /\ modes_used' = [modes_used EXCEPT ![id] = {}]
    /\ stopped' = [stopped EXCEPT ![id] = NeverStopped]

\* end_conversation, lines 351-353
EndConversation(c, id) ==
    /\ AtRest(c)
    /\ personas' = clear_persona(personas, id)
    /\ StoreCall(c, "end_conversation", id, 0, NoRet)
    /\ ForgetHistory(id)
    /\ UNCHANGED <<polIn, polOut, askCall, policy>>

----------------------------------------------------------------------------
(* PersonaManager operations called directly on agent.persona_manager.     *)

GetOrCreatePersona(c, id) ==
    /\ AtRest(c)
    /\ personas' = get_or_create_persona(personas, id)
    /\ StoreCall(c, "get_or_create_persona", id, 0, PersonaRet(personas'[id]))
    /\ UNCHANGED <<modes_used, stopped, polIn, polOut, askCall, policy>>

UpdatePersona(c, id, scam_intensity, extracted_something) ==
    /\ AtRest(c)
    /\ personas' = update_persona(personas, id, scam_intensity, extracted_something)
    /\ StoreCall(c, "update_persona", id, scam_intensity, PersonaRet(personas'[id]))
    /\ UNCHANGED <<modes_used, stopped, polIn, polOut, askCall, policy>>

\* a lookup that stores nothing
GetPersonaContextReadOnly(c, id, r) ==
    /\ AtRest(c)
    /\ personas' = personas
    /\ StoreCall(c, "get_persona_context", id, 0,
                 [kind |-> "context",
                  context |-> persona_context(
                      IF id \in DOMAIN personas THEN personas[id] ELSE NewPersona, r)])
    /\ UNCHANGED <<modes_used, stopped, polIn, polOut, askCall, policy>>

GetPersonaContext(c, id, r) ==
    /\ AtRest(c)
    /\ personas' = get_or_create_persona(personas, id)
    /\ StoreCall(c, "get_persona_context", id, 0,
                 [kind |-> "context", context |-> persona_context(personas'[id], r)])
    /\ UNCHANGED <<modes_used, stopped, polIn, polOut, askCall, policy>>

ClearPersona(c, id) ==
    /\ AtRest(c)
    /\ personas' = clear_persona(personas, id)
    /\ StoreCall(c, "clear_persona", id, 0, NoRet)
    /\ ForgetHistory(id)
    /\ UNCHANGED <<polIn, polOut, askCall, policy>>

----------------------------------------------------------------------------
(* Calls of the policy on the EngagementState polIn.                       *)

CallGetEngagementMode(confidence) ==
    /\ polOut' = [polOut EXCEPT !.conf = confidence,
                                !.mode = get_engagement_mode(confidence),
                                !.prev_conf = polOut.conf,
                                !.prev_mode = polOut.mode]
    /\ UNCHANGED <<personas, calls, modes_used, stopped, polIn, askCall, policy, cleared>>

CallShouldContinue ==
    /\ polOut' = [polOut EXCEPT !.cont = BoolStr(should_continue(polIn))]
    /\ UNCHANGED <<personas, calls, modes_used, stopped, polIn, askCall, policy, cleared>>

CallGetExitReason ==
    /\ polOut' = [polOut EXCEPT !.reason = get_exit_reason(polIn)]
    /\ UNCHANGED <<personas, calls, modes_used, stopped, polIn, askCall, policy, cleared>>

\* the verdict engage computes for a turn with polIn's mode, turn count and duration
CallEngageVerdict ==
    LET v == EngageVerdict(polIn.mode, polIn.turn_count, polIn.duration_seconds)
    IN  /\ polOut' = [polOut EXCEPT !.verdict_cont = BoolStr(v.should_continue),
                                    !.verdict_reason = v.exit_reason]
        /\ UNCHANGED <<personas, calls, modes_used, stopped, polIn, askCall, policy, cleared>>

----------------------------------------------------------------------------
(* A call of Persona.should_ask_extraction_question on a given persona.    *)

\* no call made yet on the persona
NoAskOf(persona) == [persona |-> persona, draw |-> -1, asked |-> "none"]

NoAsk == NoAskOf(NewPersona)

\* persona.py lines 66-75, with r the value random.random() returns
CallShouldAsk(r) ==
    /\ askCall' = [askCall EXCEPT !.draw = r,
                                  !.asked = BoolStr(should_ask_extraction_question(askCall.persona, r))]
    /\ UNCHANGED <<personas, calls, modes_used, stopped, polIn, polOut, policy, cleared>>

----------------------------------------------------------------------------
(* Construction of an EngagementPolicy from the settings, and a call on it. *)

\* the values get_settings() can hand over: the configured ones and ones that
\* break the constraints on the configuration
Settings ==
    [cautious_confidence_threshold : {-10, cautious_threshold, 90},
     aggressive_confidence_threshold : {aggressive_threshold, 110},
     max_engagement_turns_cautious : {0, max_turns_cautious},
     max_engagement_turns_aggressive : {-1, max_turns_aggressive},
     max_engagement_duration_seconds : {0, max_duration_seconds}]

ConfiguredSettings ==
    [cautious_confidence_threshold |-> cautious_threshold,
     aggressive_confidence_threshold |-> aggressive_threshold,
     max_engagement_turns_cautious |-> max_turns_cautious,
     max_engagement_turns_aggressive |-> max_turns_aggressive,
     max_engagement_duration_seconds |-> max_duration_seconds]

\* no policy object yet
NoPolicy ==
    [built |-> "no", cautious_threshold |-> 0, aggressive_threshold |-> 0,
     max_turns_cautious |-> 0, max_turns_aggressive |-> 0,
     max_duration_seconds |-> 0, stale_turn_threshold |-> 0,
     confidence |-> 0, mode |-> "none", calls |-> 0]

\* policy.py lines 37-53: the attributes are copied from the settings as they are
EngagementPolicy_init(settings) ==
    [NoPolicy EXCEPT
        !.built = "yes",
        !.cautious_threshold = settings.cautious_confidence_threshold,
        !.aggressive_threshold = settings.aggressive_confidence_threshold,
        !.max_turns_cautious = settings.max_engagement_turns_cautious,
        !.max_turns_aggressive = settings.max_engagement_turns_aggressive,
        !.max_duration_seconds = settings.max_engagement_duration_seconds,
        !.stale_turn_threshold = stale_turn_threshold]

\* policy.py lines 55-61 on the attributes of a policy object
get_engagement_mode_of(self, confidence) ==
    IF confidence >= self.aggressive_threshold THEN "aggressive"
    ELSE IF confidence >= self.cautious_threshold THEN "cautious"
    ELSE "none"

ConstructPolicy(settings) ==
    /\ policy.built = "no"
    /\ policy' = EngagementPolicy_init(settings)
    /\ UNCHANGED <<personas, calls, modes_used, stopped, polIn, polOut, askCall, cleared>>

\* a per-turn call on the constructed policy
PolicyGetEngagementMode(confidence) ==
    /\ policy.built = "yes"
    /\ policy' = [policy EXCEPT !.confidence = confidence,
                                !.mode = get_engagement_mode_of(policy, confidence),
                                !.calls = 1]
    /\ UNCHANGED <<personas, calls, modes_used, stopped, polIn, polOut, askCall, cleared>>

----------------------------------------------------------------------------
(* History of clears, kept by the specification of the store's lifecycle.  *)

\* at: engagement_turn of the persona when the id was last cleared (-1: never);
\* stored: the id was in the store at that clear;
\* since: update_persona calls on the id after that clear;
\* made_by: the first operation on the id after that clear, or since the start
\* ("none": no operation yet)
NeverCleared == [at |-> -1, stored |-> FALSE, since |-> 0, made_by |-> "none"]

NoteClear(id) ==
    cleared' = [cleared EXCEPT ![id] =
        [at |-> TurnOf(personas, id), stored |-> id \in DOMAIN personas, since |-> 0,
         made_by |-> "none"]]

\* operation op on the id, turns update_persona calls made by it
NoteUse(id, op, turns) ==
    cleared' = [cleared EXCEPT ![id].since = @ + turns,
                               ![id].made_by = IF @ = "none" THEN op ELSE @]

----------------------------------------------------------------------------
(* Specifications.                                                         *)

DefaultState ==
    [mode |-> "none", turn_count |-> 0, duration_seconds |-> 0,
     intelligence_complete |-> FALSE, scammer_suspicious |-> FALSE,
     turns_since_new_info |-> 0]

\* HoneypotAgent.__init__: an empty store, no call running
InitAgent ==
    /\ personas = << >>
    /\ calls = [c \in Callers |-> IdleCall]
    /\ modes_used = [id \in ConvIds |-> {}]
    /\ stopped = [id \in ConvIds |-> NeverStopped]
    /\ polOut = NoPolicyCall
    /\ policy = NoPolicy
    /\ cleared = [id \in ConvIds |-> NeverCleared]

Init ==
    /\ InitAgent
    /\ polIn = DefaultState
    /\ askCall = NoAsk

\* the conversation the sequential specifications drive
TurnIds == {"a"}

\* Store and agent, one caller, every operation, every outcome of the models.
Next ==
    \/ \E c \in Callers, id \in TurnIds, conf \in Confidences :
            /\ TurnOf(personas, id) < MaxTurn
            /\ EngageStart(c, id, id, conf)
            /\ UNCHANGED cleared
    \/ \E c \in Callers, o \in ModelOutcomes : TryModel(c, o)
    \/ \E c \in Callers, k \in 1..Len(fallback_responses) : UseFallback(c, k)
    \/ \E c \in Callers, r \in RandomDraws, q \in 1..Len(EXTRACTION_QUESTIONS) :
            PostProcess(c, r, q)
    \/ \E c \in Callers, d \in Durations : Finish(c, d)
    \/ \E c \in Callers, id \in TurnIds : EndConversation(c, id) /\ UNCHANGED cleared
    \/ \E c \in Callers, id \in TurnIds : GetOrCreatePersona(c, id) /\ UNCHANGED cleared
    \/ \E c \in Callers, id \in TurnIds, x \in Confidences, e \in BOOLEAN :
            /\ TurnOf(personas, id) < MaxTurn
            /\ UpdatePersona(c, id, x, e)
            /\ UNCHANGED cleared
    \/ \E c \in Callers, id \in TurnIds, r \in RandomDraws :
            GetPersonaContext(c, id, r) /\ UNCHANGED cleared
    \/ \E c \in Callers, id \in TurnIds : ClearPersona(c, id) /\ UNCHANGED cleared

Spec == Init /\ [][Next]_vars

\* confidences of the three modes
TurnConfidences == {50, 60, 85}

MaxLimit == Max(max_turns_cautious, max_turns_aggressive)

\* Turns of one conversation past both turn limits: engage and end_conversation.
NextTurns ==
    \/ \E c \in Callers, id \in TurnIds, conf \in TurnConfidences :
            /\ TurnOf(personas, id) < MaxLimit + TurnsPastLimit
            /\ EngageStart(c, id, id, conf)
            /\ UNCHANGED cleared
    \/ \E c \in Callers, o \in FailingOutcomes : TryModel(c, o)
    \/ \E c \in Callers, k \in 1..Len(fallback_responses) : UseFallback(c, k)
    \/ \E c \in Callers, d \in Durations : Finish(c, d)
    \/ \E c \in Callers, id \in TurnIds : EndConversation(c, id) /\ UNCHANGED cleared

SpecTurns == Init /\ [][NextTurns]_vars

\* The policy alone, on every EngagementState of the bounded set.
InitPolicy ==
    /\ InitAgent
    /\ polIn \in EngagementStates
    /\ askCall = NoAsk

NextPolicy ==
    \/ CallShouldContinue
    \/ CallGetExitReason
    \/ CallEngageVerdict

SpecPolicy == InitPolicy /\ [][NextPolicy]_vars

NextMode == \E conf \in ModeConfidences : CallGetEngagementMode(conf)

SpecMode == Init /\ [][NextMode]_vars

\* largest engagement_turn and extracted_info_count of the personas asked
AskMaxTurn == 4

AskMaxCount == 5

AskPersonas ==
    {[NewPersona EXCEPT !.engagement_turn = t, !.extracted_info_count = n, !.emotional_state = e] :
        t \in 0..AskMaxTurn, n \in 0..AskMaxCount, e \in {"calm", "panicked"}}

\* should_ask_extraction_question alone, on every persona of the bounded set.
InitAsk ==
    /\ InitAgent
    /\ polIn = DefaultState
    /\ askCall \in {NoAskOf(persona) : persona \in AskPersonas}


StoreMaxTurn == 2

StoreConfidences == {50, 85}

StoreDraws == {0, 99}

\* The lifecycle of stored personas: one caller, two conversations, the history
\* of clears.  Both ids are created, updated and cleared; the turns of engage,
\* whose model calls fail, are those of one id.
NextAsk == \E r \in RandomDraws : CallShouldAsk(r)

SpecAsk == InitAsk /\ [][NextAsk]_vars

\* cap of engagement_turn in the specification of probes, past max_turns_cautious
ProbeMaxTurn == 11

\* a turn of no length, and one as long as max_duration_seconds
ProbeDurations == {0, max_duration_seconds}

ProbeOutcomes == {Raises, Returns(PyStr(<<"ok", ".">>))}

\* A conversation driven through engage alone, long enough for the extraction
\* penalty to outweigh base and bonus and for the cautious turn limit: one model
\* text without keyword, or no text at all, every draw of the coin.
NextProbe ==
    \/ \E c \in Callers, id \in TurnIds, conf \in StoreConfidences :
            /\ TurnOf(personas, id) < ProbeMaxTurn
            /\ EngageStart(c, id, id, conf)
            /\ UNCHANGED cleared
    \/ \E c \in Callers, o \in ProbeOutcomes : TryModel(c, o)
    \/ \E c \in Callers : UseFallback(c, 1)
    \/ \E c \in Callers, r \in RandomDraws : PostProcess(c, r, 1)
    \/ \E c \in Callers, d \in ProbeDurations : Finish(c, d)
    \/ \E c \in Callers, id \in TurnIds : EndConversation(c, id) /\ UNCHANGED cleared

SpecProbe == Init /\ [][NextProbe]_vars

\* cap of engagement_turn in the specification of replies
ReplyMaxTurn == 3

\* The replies of engage: the turns of one conversation, every confidence, every
\* outcome of the models, every draw.
NextReply ==
    \/ \E c \in Callers, id \in TurnIds, conf \in Confidences :
            /\ TurnOf(personas, id) < ReplyMaxTurn
            /\ EngageStart(c, id, id, conf)
            /\ UNCHANGED cleared
    \/ \E c \in Callers, o \in ModelOutcomes : TryModel(c, o)
    \/ \E c \in Callers, k \in 1..Len(fallback_responses) : UseFallback(c, k)
    \/ \E c \in Callers, r \in RandomDraws, q \in 1..Len(EXTRACTION_QUESTIONS) :
            PostProcess(c, r, q)
    \/ \E c \in Callers : Finish(c, 0)
    \/ \E c \in Callers, id \in TurnIds : EndConversation(c, id) /\ UNCHANGED cleared

SpecReply == Init /\ [][NextReply]_vars

\* Construction of a policy from any of the settings, then calls on it.
NextConfig ==
    \/ \E settings \in Settings : ConstructPolicy(settings)
    \/ \E conf \in ModeConfidences : PolicyGetEngagementMode(conf)

SpecConfig == Init /\ [][NextConfig]_vars

NextStore ==
    \/ \E c \in Callers, id \in TurnIds, conf \in StoreConfidences :
            /\ TurnOf(personas, id) < StoreMaxTurn
            /\ EngageStart(c, id, id, conf)
            /\ NoteUse(id, "engage", 1)
    \/ \E c \in Callers : TryModel(c, Raises)
    \/ \E c \in Callers : UseFallback(c, 1)
    \/ \E c \in Callers : Finish(c, 0)
    \/ \E c \in Callers, id \in ConvIds : EndConversation(c, id) /\ NoteClear(id)
    \/ \E c \in Callers, id \in ConvIds :
            GetOrCreatePersona(c, id) /\ NoteUse(id, "get_or_create_persona", 0)
    \/ \E c \in Callers, id \in ConvIds, x \in StoreConfidences :
            /\ TurnOf(personas, id) < StoreMaxTurn
            /\ UpdatePersona(c, id, x, TRUE)
            /\ NoteUse(id, "update_persona", 1)
    \/ \E c \in Callers, id \in TurnIds, r \in StoreDraws :
            GetPersonaContext(c, id, r) /\ NoteUse(id, "get_persona_context", 0)
    \/ \E c \in Callers, id \in ConvIds : ClearPersona(c, id) /\ NoteClear(id)

SpecStore == Init /\ [][NextStore]_vars

\* Overlapping calls.  Neither engage nor the store takes a lock, so calls made
\* from different threads or event loops overlap: a second caller runs between
\* the steps of a call that has started.  Lines 114-141 of a call run as one
\* step.  (Callers on one event loop do not overlap as long as generate_content,
\* line 259, blocks the loop; engage itself excludes nothing.)
ConcCallers == {"c1", "c2"}

\* cap of the turns of all stored personas in the specification of overlapping calls
ConcMaxTurn == 2

RECURSIVE StoredTurns(_)
StoredTurns(store) ==
    IF DOMAIN store = {} THEN 0
    ELSE LET id == CHOOSE x \in DOMAIN store : TRUE
         IN  store[id].engagement_turn
             + StoredTurns([i \in DOMAIN store \ {id} |-> store[i]])

\* the conversations a caller works on: both callers meet on "a"
ConcIdsOf(c) == IF c = "c1" THEN {"a"} ELSE ConvIds

\* the confidences a caller passes: below both thresholds, above both
ConcConfidencesOf(c) == IF c = "c1" THEN {50, 85} ELSE {85}

ConcOutcomes == {Raises, Returns(PyStr(<<"ok", ".">>))}

ConcDraws == {0, 99}

\* the call of caller c is between its persona update and its result
InFlight(c) == calls[c].op = "engage" /\ calls[c].pc \in {"generate", "postprocess", "finish"}

NoTurnInFlight(id) == \A c \in DOMAIN calls : ~(InFlight(c) /\ calls[c].conv_id = id)

InitConc ==
    /\ personas = << >>
    /\ calls = [c \in ConcCallers |-> IdleCall]
    /\ modes_used = [id \in ConvIds |-> {}]
    /\ stopped = [id \in ConvIds |-> NeverStopped]
    /\ polIn = DefaultState
    /\ polOut = NoPolicyCall
    /\ askCall = NoAsk
    /\ policy = NoPolicy
    /\ cleared = [id \in ConvIds |-> NeverCleared]

\* Two callers, two conversations; a persona is removed only while no turn of its
\* conversation is in flight.
NextConc ==
    \/ \E c \in ConcCallers : \E id \in ConcIdsOf(c), conf \in ConcConfidencesOf(c) :
            /\ StoredTurns(personas) < ConcMaxTurn
            /\ EngageStart(c, id, id, conf)
            /\ UNCHANGED cleared
    \/ \E c \in ConcCallers, o \in ConcOutcomes : TryModel(c, o)
    \/ \E c \in ConcCallers : UseFallback(c, 1)
    \/ \E c \in ConcCallers, r \in ConcDraws : PostProcess(c, r, 1)
    \/ \E c \in ConcCallers : Finish(c, 0)
    \/ \E c \in ConcCallers : \E id \in ConcIdsOf(c) :
            NoTurnInFlight(id) /\ EndConversation(c, id) /\ UNCHANGED cleared
    \/ \E id \in ConvIds : GetOrCreatePersona("c2", id) /\ UNCHANGED cleared
    \/ \E id \in ConvIds, x \in ConcConfidencesOf("c2") :
            /\ StoredTurns(personas) < ConcMaxTurn
            /\ UpdatePersona("c2", id, x, FALSE)
            /\ UNCHANGED cleared
    \/ \E id \in ConvIds :
            NoTurnInFlight(id) /\ ClearPersona("c2", id) /\ UNCHANGED cleared

SpecConc == InitConc /\ [][NextConc]_vars

----------------------------------------------------------------------------
(* Properties.                                                             *)

\* the engage calls that have returned
Returned == {c \in Callers : calls[c].op = "engage" /\ calls[c].pc = "done"}

\* the turn limit of a mode
TurnLimit(mode) ==
    IF mode = "aggressive" THEN max_turns_aggressive ELSE max_turns_cautious

CannedReplies == {<<fallback_responses[k]>> : k \in 1..Len(fallback_responses)}

\* C1 as stated: a turn numbered max(maxTurnsCautious, maxTurnsAggressive) returns
\* should_continue = false, and in a conversation whose turns all had one mode
\* the turns below that mode's limit continue and the turn at the limit stops.
C1_StopsExactlyAtLimit ==
    \A c \in Returned :
        LET r == calls[c].ret
        IN  /\ r.turn_number = MaxLimit => ~r.should_continue
            /\ modes_used[r.conversation_id] = {r.engagement_mode} =>
                /\ r.turn_number = TurnLimit(r.engagement_mode) => ~r.should_continue
                /\ r.turn_number < TurnLimit(r.engagement_mode) => r.should_continue

\* C1 amended: as C1, but a turn below the limit continues only if its own
\* duration is below max_duration_seconds.
C1_StopsAtLimitOrDuration ==
    \A c \in Returned :
        LET r == calls[c].ret
        IN  /\ r.turn_number = MaxLimit => ~r.should_continue
            /\ modes_used[r.conversation_id] = {r.engagement_mode} =>
                /\ r.turn_number = TurnLimit(r.engagement_mode) => ~r.should_continue
                /\ (r.turn_number < TurnLimit(r.engagement_mode)
                    /\ r.duration_seconds < max_duration_seconds) => r.should_continue

\* C1 witness: a conversation held in cautious mode throughout stops at turn 10.
C1_Witness ==
    \E c \in Returned :
        LET r == calls[c].ret
        IN  /\ modes_used[r.conversation_id] = {"cautious"}
            /\ r.turn_number = max_turns_cautious
            /\ r.duration_seconds < max_duration_seconds
            /\ ~r.should_continue

\* C2 as stated: once engage has returned should_continue = false for a
\* conversation, no later engage of that conversation returns true.
C2_StopIsTerminal ==
    \A c \in Returned :
        calls[c].ret.should_continue => ~stopped[calls[c].ret.conversation_id].any

\* C2 amended: once engage has stopped a conversation for the turn limit L, no
\* later engage whose mode has a turn limit of at most L returns true.
C2_TurnLimitStopIsTerminal ==
    \A c \in Returned :
        LET r == calls[c].ret
        IN  r.should_continue =>
                stopped[r.conversation_id].limit < TurnLimit(r.engagement_mode)

\* C2 witness: a turn after the cautious limit stopped the conversation stops again.
C2_Witness ==
    \E c \in Returned :
        LET r == calls[c].ret
        IN  /\ stopped[r.conversation_id].limit = max_turns_cautious
            /\ r.turn_number > max_turns_cautious
            /\ r.engagement_mode = "none"
            /\ r.duration_seconds < max_duration_seconds
            /\ ~r.should_continue

\* C3: should_continue returns false iff one of the five stop conditions holds,
\* the turn limit being the aggressive one for aggressive mode and the cautious
\* one for cautious and none.
C3_StopsIffSomeCondition ==
    polOut.cont # "unknown" =>
        (polOut.cont = "false" <=>
            \/ polIn.mode = "aggressive" /\ polIn.turn_count >= max_turns_aggressive
            \/ polIn.mode \in {"cautious", "none"}
               /\ polIn.turn_count >= max_turns_cautious
            \/ polIn.duration_seconds >= max_duration_seconds
            \/ polIn.intelligence_complete
            \/ polIn.scammer_suspicious
            \/ polIn.turns_since_new_info >= stale_turn_threshold)

\* C3 witness: staleness alone stops the engagement.
C3_Witness ==
    /\ polOut.cont = "false"
    /\ polIn.turn_count < max_turns_cautious
    /\ polIn.duration_seconds < max_duration_seconds
    /\ ~polIn.intelligence_complete /\ ~polIn.scammer_suspicious
    /\ polIn.turns_since_new_info = stale_turn_threshold

\* the stop conditions of a state, in the order of priority
StopConditions(state) ==
    <<state.turn_count >= TurnLimit(state.mode),
      state.duration_seconds >= max_duration_seconds,
      state.intelligence_complete,
      state.scammer_suspicious,
      state.turns_since_new_info >= stale_turn_threshold>>

ReasonMessages ==
    <<"Max turns reached", "Max duration exceeded", "Intelligence extraction complete",
      "Scammer became suspicious", "No new information in turns">>

\* C4: get_exit_reason returns the reason of the first stop condition that holds,
\* in the order turns, duration, intelligence complete, suspicious, stale.
C4_ReasonOfFirstCondition ==
    polOut.reason.msg # "unknown" =>
        \A i \in 1..5 :
            (StopConditions(polIn)[i] /\ \A j \in 1..(i - 1) : ~StopConditions(polIn)[j])
                => polOut.reason.msg = ReasonMessages[i]

\* C4 witness: turn limit reached and scammer suspicious: the turn-limit reason.
C4_Witness ==
    /\ polOut.reason.msg = "Max turns reached"
    /\ polIn.scammer_suspicious
    /\ polIn.duration_seconds >= max_duration_seconds

\* C5: get_exit_reason is None exactly when should_continue is true, and the
\* verdict of engage has an exit reason exactly when should_continue is false.
C5_ReasonIffStopped ==
    /\ (polOut.cont # "unknown" /\ polOut.reason.msg # "unknown") =>
            (polOut.reason = NoneReason <=> polOut.cont = "true")
    /\ polOut.verdict_cont # "unknown" =>
            (polOut.verdict_reason # NoneReason <=> polOut.verdict_cont = "false")

\* C5 witness: a stopped state with its reason from the policy and from engage.
C5_Witness ==
    /\ polOut.cont = "false" /\ polOut.reason.msg = "Max duration exceeded"
    /\ polOut.verdict_cont = "false"
    /\ polOut.verdict_reason.msg = "Max duration exceeded"

\* C6: the mode is aggressive from aggressive_threshold, cautious from
\* cautious_threshold and none below; of two calls, the one with the larger
\* confidence has the mode at least as high.
C6_ModeByThreshold ==
    polOut.mode # "unknown" =>
        /\ polOut.conf >= aggressive_threshold => polOut.mode = "aggressive"
        /\ (cautious_threshold <= polOut.conf /\ polOut.conf < aggressive_threshold)
                => polOut.mode = "cautious"
        /\ polOut.conf < cautious_threshold => polOut.mode = "none"
        /\ (polOut.prev_mode # "unknown" /\ polOut.prev_conf <= polOut.conf)
                => ModeRank(polOut.prev_mode) <= ModeRank(polOut.mode)

\* C6 witness: a confidence just below a threshold, then the threshold itself.
C6_Witness ==
    /\ polOut.prev_conf = cautious_threshold - 1 /\ polOut.prev_mode = "none"
    /\ polOut.conf = cautious_threshold /\ polOut.mode = "cautious"

\* a step that is an update_persona or the start of an engage for id
TurnStep(id) ==
    \E c \in Callers :
        /\ AtRest(c)
        /\ calls'[c].conv_id = id
        /\ \/ calls'[c].op = "engage" /\ calls'[c].pc = "generate"
           \/ calls'[c].op = "update_persona" /\ calls'[c] # calls[c]

\* a step that is a clear_persona or an end_conversation for id
ClearStep(id) ==
    \E c \in Callers :
        /\ AtRest(c)
        /\ calls'[c].conv_id = id
        /\ calls'[c].op \in {"clear_persona", "end_conversation"}

\* C7: engagement_turn is never negative; an update or engage adds exactly 1 to
\* it, no other step changes it, only a clear removes the persona, and a persona
\* that appears starts at 0 (at 1 when the step that creates it is a turn).
C7_TurnCountsTurns ==
    [][\A id \in ConvIds :
        /\ id \in DOMAIN personas' => personas'[id].engagement_turn >= 0
        /\ (id \in DOMAIN personas /\ id \in DOMAIN personas') =>
                personas'[id].engagement_turn =
                    personas[id].engagement_turn + (IF TurnStep(id) THEN 1 ELSE 0)
        /\ (id \in DOMAIN personas /\ id \notin DOMAIN personas') => ClearStep(id)
        /\ (id \notin DOMAIN personas /\ id \in DOMAIN personas') =>
                personas'[id].engagement_turn = (IF TurnStep(id) THEN 1 ELSE 0)
    ]_vars

\* C7 witness: an update_persona on a persona that had turns moved it one up.
C7_Witness ==
    \E c \in Callers :
        /\ calls[c].op = "update_persona" /\ calls[c].pc = "done"
        /\ calls[c].entry_turn >= 1
        /\ calls[c].confidence <= 50
        /\ personas[calls[c].conv_id].engagement_turn = calls[c].entry_turn + 1
        /\ personas[calls[c].conv_id].emotional_state = "calm"

\* the emotional state of a scam intensity, by the thresholds 0.8 and 0.5
StateOfIntensity(x) ==
    IF x > 80 THEN "panicked" ELSE IF x > 50 THEN "anxious" ELSE "calm"

\* C8: whichever branch made the reply, a returned engage has moved the turn one
\* up from its value at entry, set the emotional state of its confidence, and
\* reports the new turn as turn_number.
C8_OneUpdatePerEngage ==
    \A c \in Returned :
        LET p == personas[calls[c].conv_id]
        IN  /\ p.engagement_turn = calls[c].entry_turn + 1
            /\ p.emotional_state = StateOfIntensity(calls[c].confidence)
            /\ calls[c].ret.turn_number = p.engagement_turn

\* C8 witness: a reply of the fallback model, with an extraction question
\* appended, on a persona that had a turn before.
C8_Witness ==
    \E c \in Returned :
        /\ calls[c].tried = <<"raise", "text">>
        /\ calls[c].asked
        /\ calls[c].entry_turn >= 1
        /\ calls[c].ret.turn_number = calls[c].entry_turn + 1

\* C9: a returned engage whose model calls produced no text with content replies
\* with one of the four canned strings, and no reply is empty or blank.
C9_NeverBlankReply ==
    \A c \in Returned :
        /\ StripNonEmpty(calls[c].ret.response)
        /\ (\A i \in 1..Len(calls[c].tried) : calls[c].tried[i] # "text")
                => calls[c].ret.response \in CannedReplies

Clamp(x) == Max(0, Min(100, x))

\* C10: every stored emotional state is calm, anxious or panicked, and an update
\* (or an engage) leaves the state of its intensity clamped to [0, 1].
C10_StateFromIntensity ==
    /\ \A id \in DOMAIN personas :
            personas[id].emotional_state \in {"calm", "anxious", "panicked"}
    /\ \A c \in Callers :
            (calls[c].op = "update_persona" /\ calls[c].pc = "done") =>
                calls[c].ret.persona.emotional_state =
                    StateOfIntensity(Clamp(calls[c].confidence))
    /\ \A c \in Callers :
            (calls[c].op = "engage" /\ calls[c].pc # "idle") =>
                personas[calls[c].conv_id].emotional_state =
                    StateOfIntensity(Clamp(calls[c].confidence))

\* C10 witness: an intensity above 1 on a persona that had a turn: panicked.
C10_Witness ==
    \E c \in Callers :
        /\ calls[c].op = "update_persona" /\ calls[c].pc = "done"
        /\ calls[c].confidence > 100
        /\ calls[c].entry_turn >= 1
        /\ calls[c].ret.persona.emotional_state = "panicked"

\* C11: at most one turn is in flight per conversation id: no two engage calls
\* for the same conversation id are at the same time between their persona
\* update and the construction of their result.
C11_OneTurnInFlight ==
    \A c1 \in DOMAIN calls, c2 \in DOMAIN calls :
        (c1 # c2 /\ InFlight(c1) /\ InFlight(c2)) => calls[c1].conv_id # calls[c2].conv_id

\* what the store holds for an id: nothing, or a persona with all its fields
StoredAt(store, id) ==
    IF id \in DOMAIN store THEN [present |-> TRUE, persona |-> store[id]]
    ELSE [present |-> FALSE, persona |-> NewPersona]

\* C12: conversations are isolated: a step of update_persona, engage,
\* get_or_create_persona or clear_persona for one id leaves the presence and
\* every field of the persona of every other id unchanged, also when turns of
\* two conversations interleave.
C12_ConversationsIsolated ==
    [][\E c \in DOMAIN calls :
          /\ \A d \in DOMAIN calls \ {c} : calls'[d] = calls[d]
          /\ calls'[c] # calls[c] \/ calls[c].pc = "done"
          /\ \A b \in ConvIds \ {calls'[c].conv_id} :
                StoredAt(personas', b) = StoredAt(personas, b)]_vars

\* turns of "a" and "b" in flight together, both personas stored
C12_Witness ==
    /\ InFlight("c1") /\ calls["c1"].conv_id = "a"
    /\ InFlight("c2") /\ calls["c2"].conv_id = "b"
    /\ calls["c1"].asked
    /\ personas["a"].emotional_state # personas["b"].emotional_state

\* the persona of a conversation that has had no turn
IsDefaultPersona(persona) ==
    /\ persona.engagement_turn = 0
    /\ persona.emotional_state = "calm"
    /\ persona.extracted_info_count = 0
    /\ persona.traits = <<"trusting", "worried", "tech_naive">>
    /\ persona.claimed_issues = << >>
    /\ persona.mentioned_details = << >>

\* caller c has just run the store operation op
JustRan(c, op) == calls'[c] # calls[c] /\ calls'[c].op = op /\ calls'[c].pc = "done"

\* C13: get_or_create_persona creates once: for an id not in the store it
\* stores and returns a persona with engagement_turn 0, emotional_state calm,
\* extracted_info_count 0 and the default traits; for an id in the store it
\* returns the stored persona and changes none of its fields.
C13_CreatesOnce ==
    [][\A c \in DOMAIN calls :
          JustRan(c, "get_or_create_persona") =>
              LET id == calls'[c].conv_id
                  returned == calls'[c].ret.persona
              IN  /\ id \in DOMAIN personas'
                  /\ returned = personas'[id]
                  /\ \A b \in DOMAIN personas : b \in DOMAIN personas' /\ personas'[b] = personas[b]
                  /\ id \notin DOMAIN personas => IsDefaultPersona(returned)]_vars

\* get_or_create_persona has returned a persona that has had turns and an
\* extraction, as it is stored
C13_Witness ==
    \E c \in DOMAIN calls :
        /\ calls[c].op = "get_or_create_persona" /\ calls[c].pc = "done"
        /\ calls[c].ret.persona.engagement_turn >= 2
        /\ calls[c].ret.persona.extracted_info_count >= 1
        /\ calls[c].ret.persona.emotional_state = "panicked"
        /\ personas[calls[c].conv_id] = calls[c].ret.persona

\* C14: clear_persona and end_conversation start a conversation over: after one
\* of them, until the next turn of the id, the id is absent or stored with the
\* defaults (turn 0, calm, count 0, empty memory), get_or_create_persona returns
\* the defaults, and the first engage after it reports turn_number 1.
C14_ClearStartsOver ==
    \A id \in ConvIds :
        cleared[id].at >= 0 =>
            /\ cleared[id].since = 0 =>
                    /\ id \in DOMAIN personas => IsDefaultPersona(personas[id])
                    /\ \A c \in DOMAIN calls :
                           (calls[c].op = "get_or_create_persona" /\ calls[c].conv_id = id)
                               => IsDefaultPersona(calls[c].ret.persona)
            /\ cleared[id].since = 1 =>
                    \A c \in Returned :
                        calls[c].conv_id = id => calls[c].ret.turn_number = 1

\* a conversation that had turns was cleared, and the engage after it has returned
C14_Witness ==
    \E c \in Returned :
        LET id == calls[c].conv_id
        IN  /\ cleared[id].at >= 2
            /\ cleared[id].since = 1
            /\ calls[c].ret.turn_number = 1
            /\ personas[id].engagement_turn = 1

\* C15: clear_persona and end_conversation remove exactly the given id: for an
\* id not in the store they return without error and leave the store as it
\* was; for an id in the store they remove it and leave every other persona
\* stored and unchanged.
C15_ClearRemovesOnlyItsId ==
    [][/\ calls' = calls => personas' = personas
       /\ \A c \in DOMAIN calls :
             (JustRan(c, "clear_persona") \/ JustRan(c, "end_conversation")) =>
                 LET id == calls'[c].conv_id
                 IN  /\ calls'[c].ret = NoRet
                     /\ DOMAIN personas' = DOMAIN personas \ {id}
                     /\ \A b \in DOMAIN personas' : personas'[b] = personas[b]
                     /\ id \notin DOMAIN personas => personas' = personas]_vars

\* end_conversation has run for an id that was not stored, beside a stored
\* persona that has had turns
C15_Witness ==
    \E c \in DOMAIN calls :
        /\ calls[c].op = "end_conversation" /\ calls[c].pc = "done"
        /\ calls[c].conv_id = "a"
        /\ cleared["a"].at >= 0 /\ ~cleared["a"].stored
        /\ "b" \in DOMAIN personas /\ personas["b"].engagement_turn >= 1

\* C16: should_ask_extraction_question answers true with the probability
\* clamp(40 + min(30, 10 * turn) - 15 * count, 0, 100) hundredths, whatever
\* else the persona holds: it answers true exactly for the draws below that
\* value, which is 40 at (0, 0), 70 from turn 3 on with count 0 and never above
\* 70, and it never answers true where the unclamped value is at most 0.
C16_AskProbabilityClamped ==
    askCall.asked # "none" =>
        LET turn == askCall.persona.engagement_turn
            count == askCall.persona.extracted_info_count
            unclamped == 40 + Min(30, 10 * turn) - 15 * count
            p == Clamp(unclamped)
        IN  /\ askCall.asked = "true" <=> askCall.draw < p
            /\ p <= 70
            /\ (turn = 0 /\ count = 0) => p = 40
            /\ (turn >= 3 /\ count = 0) => p = 70
            /\ unclamped <= 0 => askCall.asked = "false"

\* the constraints on the configuration: thresholds within [0, 1] and ordered,
\* positive turn limits, positive maximal duration
ValidConfiguration(p) ==
    /\ 0 <= p.cautious_threshold /\ p.cautious_threshold <= 100
    /\ 0 <= p.aggressive_threshold /\ p.aggressive_threshold <= 100
    /\ p.cautious_threshold <= p.aggressive_threshold
    /\ p.max_turns_cautious > 0
    /\ p.max_turns_aggressive > 0
    /\ p.max_duration_seconds > 0

\* C17: an invalid configuration fails at construction: no EngagementPolicy
\* exists whose attributes break the constraints, so no per-turn call is
\* evaluated on one.
C17_InvalidSettingsRejected ==
    policy.built = "yes" => ValidConfiguration(policy)

\* extracted_info_count of an id, 0 while it is not stored
CountOf(store, id) == IF id \in DOMAIN store THEN store[id].extracted_info_count ELSE 0

\* one of the four keywords in any case
HasKeywordAnyCase(s) ==
    \E i \in 1..Len(s) : s[i] \in {"account", "Account", "upi", "link", "number"}

\* the text ends with a space and one of the extraction questions
EndsWithQuestion(s) ==
    /\ Len(s) >= 2
    /\ s[Len(s) - 1] = " "
    /\ \E q \in 1..Len(EXTRACTION_QUESTIONS) : s[Len(s)] = EXTRACTION_QUESTIONS[q]

\* the coin of should_ask_extraction_question can come up true for the persona
CoinCanSucceed(persona) ==
    40 + Min(30, 10 * persona.engagement_turn) - 15 * persona.extracted_info_count > 0

ModifierOf(persona) ==
    IF persona.emotional_state = "anxious" THEN <<"I'm getting worried... ">>
    ELSE IF persona.emotional_state = "panicked" THEN <<"Oh god, please help! ">>
    ELSE IF persona.emotional_state = "relieved" THEN <<"Thank goodness... ">>
    ELSE IF persona.emotional_state = "suspicious" THEN <<"Hmm, ">>
    ELSE << >>

\* the text starts with the modifier, and not with the modifier twice
StartsWithOnce(s, modifier) ==
    /\ StartsWith(s, modifier)
    /\ modifier # << >> => ~StartsWith(s, modifier \o modifier)

\* C19 as stated: every reply returned by engage starts with the emotional
\* modifier of the persona's state, once, whether the text came from a model
\* or is a canned fallback.
C19_EveryReplyHasModifier ==
    \A c \in Returned :
        StartsWithOnce(calls[c].ret.response, ModifierOf(personas[calls[c].conv_id]))

\* C19 amended: a reply made from the text of a model (the last model that
\* returned gave non-empty text) starts with the emotional modifier of the
\* persona's state, once, also when the text already began with it; otherwise
\* the reply is a canned fallback, returned as it is, without the modifier.
C19_ModelReplyHasModifier ==
    \A c \in Returned :
        LET reply == calls[c].ret.response
            tried == calls[c].tried
            \* the last model that returned at all returned non-empty text
            from_model == \E i \in 1..Len(tried) :
                              /\ tried[i] \in {"text", "blank"}
                              /\ \A j \in (i + 1)..Len(tried) : tried[j] = "raise"
        IN  /\ from_model => StartsWithOnce(reply, ModifierOf(personas[calls[c].conv_id]))
            /\ ~from_model => reply \in CannedReplies

\* the model's text began with the modifier of the anxious persona and is
\* returned with the modifier once
C19_Witness ==
    \E c \in Returned :
        /\ personas[calls[c].conv_id].emotional_state = "anxious"
        /\ calls[c].tried = <<"text">>
        /\ calls[c].ret.response = <<"I'm getting worried... ", "ok">>

\* C20: the turn increment and the emotional-state update of a turn are whole
\* while its text is generated: whenever an engage call is at or in its model
\* calls, or past a failed one, the persona of its conversation has the turn
\* incremented and the emotional state of that call's confidence.
C20_UpdateWholeDuringGeneration ==
    \A c \in DOMAIN calls :
        (calls[c].op = "engage" /\ calls[c].pc \in {"generate", "postprocess"}) =>
            LET p == personas[calls[c].conv_id]
            IN  /\ p.engagement_turn >= calls[c].entry_turn + 1
                /\ p.emotional_state = StateOfIntensity(calls[c].confidence)

\* the engage calls that have returned, of any caller
ReturnedCalls == {c \in DOMAIN calls : calls[c].op = "engage" /\ calls[c].pc = "done"}

\* C21: overlapping turns of one conversation do not corrupt the turn counter:
\* every result carries the turn number made by its own update (the turn at
\* its entry plus one), its verdict is the policy's for that turn number, and
\* two calls that updated the same persona one after the other report
\* different turn numbers.
C21_OwnTurnNumber ==
    /\ \A c \in ReturnedCalls :
          LET own == calls[c].entry_turn + 1
              v == EngageVerdict(calls[c].engagement_mode, own, calls[c].ret.duration_seconds)
          IN  /\ calls[c].ret.turn_number = own
              /\ calls[c].ret.should_continue = v.should_continue
    /\ \A c1 \in ReturnedCalls, c2 \in ReturnedCalls :
          (calls[c1].conv_id = calls[c2].conv_id /\ calls[c1].entry_turn # calls[c2].entry_turn)
              => calls[c1].ret.turn_number # calls[c2].ret.turn_number

\* C22: a persona driven through engage alone has
\* 0 <= extracted_info_count <= engagement_turn and extracted_info_count <= 5.
C22_CountBounded ==
    \A id \in DOMAIN personas :
        /\ 0 <= personas[id].extracted_info_count
        /\ personas[id].extracted_info_count <= personas[id].engagement_turn
        /\ personas[id].extracted_info_count <= 5

\* five probes are recorded and a later turn, whose model text holds no
\* keyword, has returned without a sixth
C22_Witness ==
    \E c \in Returned :
        /\ personas[calls[c].conv_id].extracted_info_count = 5
        /\ calls[c].entry_turn >= 5
        /\ calls[c].tried = <<"text">>
        /\ ~calls[c].asked
        /\ ~HasKeywordAnyCase(calls[c].ret.response)

\* C23: the exit_reason of a result of engage is absent, the turn-limit reason
\* or the duration reason, whatever the turns and the probes recorded; it is
\* absent exactly when should_continue is true.
C23_OnlyLimitReasons ==
    \A c \in Returned :
        LET r == calls[c].ret
        IN  /\ r.exit_reason.msg \in {"None", "Max turns reached", "Max duration exceeded"}
            /\ r.exit_reason = NoneReason <=> r.should_continue

\* five probes are recorded, the turn is past five turns since the last one,
\* and the result stops for the turn limit
C23_Witness ==
    \E c \in Returned :
        /\ calls[c].ret.exit_reason = Reason("Max turns reached", max_turns_cautious)
        /\ calls[c].ret.turn_number = max_turns_cautious
        /\ personas[calls[c].conv_id].extracted_info_count = 5
        /\ calls[c].ret.duration_seconds = 0

StoreOps == {"get_or_create_persona", "update_persona", "get_persona_context", "engage"}

\* C24: the store holds an entry for an id exactly when a get_or_create_persona,
\* update_persona, get_persona_context or engage call for the id has happened
\* since its last clear_persona / end_conversation (or since the start); an
\* engage call that was not followed by end_conversation leaves its entry
\* behind; and get_persona_context leaves the id stored, also when it was
\* unknown, while it changes no field of any persona stored before it.
C24_EntryIffUsedSinceClear ==
    /\ [](\A id \in ConvIds : id \in DOMAIN personas <=> cleared[id].made_by \in StoreOps)
    /\ [](\A c \in DOMAIN calls :
             calls[c].op = "engage" => calls[c].conv_id \in DOMAIN personas)
    /\ [][\A c \in DOMAIN calls :
             JustRan(c, "get_persona_context") =>
                 /\ calls'[c].conv_id \in DOMAIN personas'
                 /\ \A b \in DOMAIN personas :
                        b \in DOMAIN personas' /\ personas'[b] = personas[b]]_vars

\* the entry of "a" was made by a lookup of the unknown id, after a clear of
\* "a" that removed an entry with turns, while "b" is stored with a turn
C24_Witness ==
    /\ cleared["a"].made_by = "get_persona_context"
    /\ cleared["a"].stored /\ cleared["a"].at >= 1
    /\ "a" \in DOMAIN personas /\ IsDefaultPersona(personas["a"])
    /\ "b" \in DOMAIN personas /\ personas["b"].engagement_turn >= 1
    /\ \E c \in DOMAIN calls :
           /\ calls[c].op = "get_persona_context" /\ calls[c].pc = "done"
           /\ calls[c].conv_id = "a"

====
